---- MODULE Spec2Model ----
(***************************************************************************)
(* The response cache of wewatch (src/src/services/cacheService.ts): an    *)
(* in-memory Map from a derived string key to an entry {data, timestamp,   *)
(* expiresAt}, with a per-kind time to live, lazy expiry on get and a      *)
(* sweep (cleanup).  Strings are sequences of one-character strings, so    *)
(* that key derivation (lower-casing, whitespace replacement) is computed  *)
(* character by character as the code computes it.  Time is Date.now() in  *)
(* milliseconds.                                                           *)
(***************************************************************************)
EXTENDS Integers, Sequences, FiniteSets, TLC

VARIABLES
  cache,    \* CacheService.cache: key -> [data, timestamp, expiresAt]
  now,      \* the value Date.now() returns
  last,     \* the most recent call: its name, arguments and return value
  written,  \* history: key -> the latest set on it: its arguments, the clock
            \* value it stamped expiresAt from, and whether clear() came after
  nsets,    \* history: number of set calls so far
  nextSweep,  \* the clock value at which the interval timer is next due
  nsweeps,    \* history: number of times the interval timer has fired
  calls,    \* APIService: component -> its invocation of
            \* fetchEnvironmentalData that is awaiting, if any
  done,     \* history: how the latest invocation of fetchEnvironmentalData
            \* to return ended
  lazy,     \* the map of a second CacheService, which is given the calls
            \* of the first at the same clock values, except cleanup()
  probe     \* APIService: the invocation of fetchSatelliteData whose
            \* imagery search is followed probe by probe

vars ==
  <<cache, now, last, written, nsets, nextSweep, nsweeps, calls, done, lazy,
    probe>>

\* The state of the interval timer.
timerVars == <<nextSweep, nsweeps>>

\* The state of APIService.
fetchVars == <<calls, done>>

----------------------------------------------------------------------------
(* Bounds of the model.                                                    *)

\* set calls in one behaviour of Spec
MaxSets == 2

\* set calls in one behaviour of SpecTTL
MaxSetsTTL == 1

\* firings of the interval timer in one behaviour of SpecSweep
MaxSweeps == 3

\* the clock of SpecFetch stops after this many periods of the interval timer
MaxPeriods == 2

\* the clock of SpecProbe stops after this many times the time to live of
\* the satellite data
MaxSatelliteLives == 1

----------------------------------------------------------------------------
(* Strings.                                                                *)

\* String.prototype.toLowerCase, on the characters the model uses
toLowerCaseChar(c) ==
  CASE c = "N" -> "n"
    [] c = "Y" -> "y"
    [] c = "U" -> "u"
    [] c = "S" -> "s"
    [] c = "I" -> "i"
    [] c = "L" -> "l"
    [] c = "G" -> "g"
    [] OTHER -> c

toLowerCase(s) == [i \in 1..Len(s) |-> toLowerCaseChar(s[i])]

\* the regular expression class \s, on the characters the model uses
isWhitespace(c) == c \in {" ", "\t", "\n"}

\* one match of /\s+/ starts at the head of s: the rest after the whole run
RECURSIVE skipWhitespace(_)
skipWhitespace(s) ==
  IF s # <<>> /\ isWhitespace(Head(s)) THEN skipWhitespace(Tail(s)) ELSE s

\* As replaceWhitespace with the pattern /\s/g: each whitespace character
\* becomes a '_' of its own.
replaceWhitespace_each(s) ==
  [i \in 1..Len(s) |-> IF isWhitespace(s[i]) THEN "_" ELSE s[i]]

\* s.replace(/\s+/g, '_'): every maximal run of whitespace becomes one '_'
RECURSIVE replaceWhitespace(_)
replaceWhitespace(s) ==
  IF s = <<>> THEN <<>>
  ELSE IF isWhitespace(Head(s))
       THEN <<"_">> \o replaceWhitespace(skipWhitespace(s))
       ELSE <<Head(s)>> \o replaceWhitespace(Tail(s))

----------------------------------------------------------------------------
(* The kinds the callers use, and one the cache does not recognise.        *)

weather            == <<"w","e","a","t","h","e","r">>
news               == <<"n","e","w","s">>
satellite          == <<"s","a","t","e","l","l","i","t","e">>
criticalIssues     == <<"c","r","i","t","i","c","a","l","I","s","s","u","e","s">>
environmental_data == <<"e","n","v","i","r","o","n","m","e","n","t","a","l","_","d","a","t","a">>
otherKind          == <<"a","q","i">>

Kinds == {weather, news, satellite, criticalIssues, environmental_data, otherKind}

\* { city, country } arguments
NewYorkUS   == [city |-> <<"N","e","w"," ","Y","o","r","k">>, country |-> <<"U","S">>]
newYorkUs   == [city |-> <<"n","e","w"," "," ","\t","y","o","r","k">>, country |-> <<"u","s">>]
LagosNG     == [city |-> <<"L","a","g","o","s">>, country |-> <<"N","G">>]
NewYorkCityUS == [city |-> <<"N","e","w"," ","Y","o","r","k"," ","c","i","t","y">>, country |-> <<"U","S">>]
New_YorkUS  == [city |-> <<"N","e","w">>, country |-> <<"Y","o","r","k"," ","U","S">>]

Locations == {NewYorkUS, newYorkUs, LagosNG}

\* Payloads are opaque to the cache.  The n-th set call passes payload n, so
\* that a read can tell which write it returns; get's null is none of them.
Payload(n) == n
Null == 0

\* how far Date.now() can move between the two reads of one set call
ClockDrift == {0, 1}

----------------------------------------------------------------------------
(* CacheService.                                                           *)

config ==
  [ weatherTTL           |-> 10 * 60 * 1000,
    newsTTL              |-> 30 * 60 * 1000,
    satelliteTTL         |-> 60 * 60 * 1000,
    criticalIssuesTTL    |-> 15 * 60 * 1000,
    environmentalDataTTL |-> 5 * 60 * 1000 ]

generateKey(type, location) ==
  replaceWhitespace(
    toLowerCase(type \o <<"_">> \o location.city \o <<"_">> \o location.country))

\* As isValid with one second of grace after expiresAt.
isValid_grace(entry, t) == t < entry.expiresAt + 1000

\* As isValid with the comparison turned around.
isValid_inverted(entry, t) == t > entry.expiresAt

\* As isValid with the comparison now <= entry.expiresAt.
isValid_inclusive(entry, t) == t <= entry.expiresAt

\* isValid(entry), with t the value of Date.now()
isValid(entry, t) == t < entry.expiresAt

\* As getTTL with the case label 'criticalissues', which no caller passes.
getTTL_misspelt(type) ==
  CASE type = weather            -> config.weatherTTL
    [] type = news               -> config.newsTTL
    [] type = satellite          -> config.satelliteTTL
    [] type = toLowerCase(criticalIssues) -> config.criticalIssuesTTL
    [] type = environmental_data -> config.environmentalDataTTL
    [] OTHER                     -> 5 * 60 * 1000

getTTL(type) ==
  CASE type = weather            -> config.weatherTTL
    [] type = news               -> config.newsTTL
    [] type = satellite          -> config.satelliteTTL
    [] type = criticalIssues     -> config.criticalIssuesTTL
    [] type = environmental_data -> config.environmentalDataTTL
    [] OTHER                     -> 5 * 60 * 1000

\* Map.prototype.delete
mapDelete(c, key) == [k \in DOMAIN c \ {key} |-> c[k]]

\* Map.prototype.set
mapSet(c, key, entry) ==
  [k \in DOMAIN c \cup {key} |-> IF k = key THEN entry ELSE c[k]]

\* As cacheGet without the delete on a miss.
cacheGet_keepStale(c, t, type, location) ==
  LET key == generateKey(type, location)
  IN  IF key \notin DOMAIN c \/ ~isValid(c[key], t)
      THEN [cache |-> c, ret |-> Null]
      ELSE [cache |-> c, ret |-> c[key].data]

\* As cacheGet with a hit pushing expiresAt forward (sliding expiration).
cacheGet_refresh(c, t, type, location) ==
  LET key == generateKey(type, location)
  IN  IF key \notin DOMAIN c \/ ~isValid(c[key], t)
      THEN [cache |-> mapDelete(c, key), ret |-> Null]
      ELSE [cache |-> [c EXCEPT ![key].expiresAt = t + getTTL(type)],
            ret |-> c[key].data]

\* As cacheGet with a miss invalidating the whole map.
cacheGet_clearOnMiss(c, t, type, location) ==
  LET key == generateKey(type, location)
  IN  IF key \notin DOMAIN c \/ ~isValid(c[key], t)
      THEN [cache |-> << >>, ret |-> Null]
      ELSE [cache |-> c, ret |-> c[key].data]

\* As cacheGet with a stale entry served once more and stamped afresh.
cacheGet_revive(c, t, type, location) ==
  LET key == generateKey(type, location)
  IN  IF key \notin DOMAIN c
      THEN [cache |-> c, ret |-> Null]
      ELSE IF ~isValid(c[key], t)
           THEN [cache |-> [c EXCEPT ![key].expiresAt = t + getTTL(type)],
                 ret |-> c[key].data]
           ELSE [cache |-> c, ret |-> c[key].data]

\* get(type, location) on the map c at clock t: the map afterwards and the
\* value returned
cacheGet(c, t, type, location) ==
  LET key == generateKey(type, location)
  IN  IF key \notin DOMAIN c \/ ~isValid(c[key], t)
      THEN [cache |-> mapDelete(c, key), ret |-> Null]
      ELSE [cache |-> c, ret |-> c[key].data]

\* As cacheSet guarded by !this.cache.has(key): the first write stays.
cacheSet_keepExisting(c, t1, t2, type, location, data) ==
  LET key == generateKey(type, location)
      ttl == getTTL(type)
      entry == [data |-> data, timestamp |-> t1, expiresAt |-> t2 + ttl]
  IN  IF key \in DOMAIN c THEN c ELSE mapSet(c, key, entry)

\* As cacheSet writing only the times of an entry that exists already.
cacheSet_keepData(c, t1, t2, type, location, data) ==
  LET key == generateKey(type, location)
      ttl == getTTL(type)
      old == IF key \in DOMAIN c THEN c[key].data ELSE data
      entry == [data |-> old, timestamp |-> t1, expiresAt |-> t2 + ttl]
  IN  mapSet(c, key, entry)

\* set(type, location, data) on the map c; t1 and t2 are the two values of
\* Date.now(), read for timestamp and for expiresAt in that order
cacheSet(c, t1, t2, type, location, data) ==
  LET key == generateKey(type, location)
      ttl == getTTL(type)
      entry == [data |-> data, timestamp |-> t1, expiresAt |-> t2 + ttl]
  IN  mapSet(c, key, entry)

\* As cacheCleanup stopping after the first entry it deletes.
cacheCleanup_first(c, t) ==
  LET expired == {x \in DOMAIN c : t >= c[x].expiresAt}
  IN  IF expired = {} THEN c
      ELSE mapDelete(c, CHOOSE x \in expired : TRUE)

\* As cacheCleanup with the test now > entry.expiresAt.
cacheCleanup_strict(c, t) ==
  [k \in {x \in DOMAIN c : ~(t > c[x].expiresAt)} |-> c[k]]

\* As cacheCleanup with the test now < entry.expiresAt: the valid entries go.
cacheCleanup_valid(c, t) ==
  [k \in {x \in DOMAIN c : ~(t < c[x].expiresAt)} |-> c[k]]

\* cleanup() on the map c, with t the one value of Date.now() it reads
cacheCleanup(c, t) ==
  [k \in {x \in DOMAIN c : ~(t >= c[x].expiresAt)} |-> c[k]]

\* As cacheClear on a copy of the map: the map itself keeps its entries.
cacheClear_copy(c) == c

\* clear()
cacheClear(c) == << >>

\* As getStats with the test now <= entry.expiresAt.
getStats_inclusive(c, t) ==
  [ totalEntries   |-> Cardinality(DOMAIN c),
    validEntries   |-> Cardinality({k \in DOMAIN c : t <= c[k].expiresAt}),
    expiredEntries |-> Cardinality({k \in DOMAIN c : ~(t <= c[k].expiresAt)}) ]

\* getStats() on the map c at clock t
getStats(c, t) ==
  [ totalEntries   |-> Cardinality(DOMAIN c),
    validEntries   |-> Cardinality({k \in DOMAIN c : t < c[k].expiresAt}),
    expiredEntries |-> Cardinality({k \in DOMAIN c : ~(t < c[k].expiresAt)}) ]

\* key.split('_'): the pieces of s between the separators
RECURSIVE split(_, _)
split(s, sep) ==
  IF \A i \in 1..Len(s) : s[i] # sep
  THEN <<s>>
  ELSE LET i == CHOOSE j \in 1..Len(s) :
                  s[j] = sep /\ \A h \in 1..(j - 1) : s[h] # sep
       IN  <<SubSeq(s, 1, i - 1)>> \o split(SubSeq(s, i + 1, Len(s)), sep)

\* an element a destructuring finds no piece for, as a template literal
\* prints it
undefined == <<"u","n","d","e","f","i","n","e","d">>

\* const [..] = pieces: the i-th element
element(pieces, i) == IF i <= Len(pieces) THEN pieces[i] ELSE undefined

\* Math.round(ms / 60000)
roundMinutes(ms) == (2 * ms + 60000) \div 120000

\* The record getDebugInfo pushes for an entry.
debugRecord(key, entry, t) ==
  LET pieces == split(key, "_")
      type == element(pieces, 1)
      city == element(pieces, 2)
      country == element(pieces, 3)
  IN  [key |-> key,
       type |-> type,
       location |-> city \o <<" ">> \o country,
       age |-> roundMinutes(t - entry.timestamp),
       expiresIn |-> roundMinutes(entry.expiresAt - t)]

\* getDebugInfo(): the records, one pushed per entry of the map
getDebugInfo(c, t) == {debugRecord(k, c[k], t) : k \in DOMAIN c}

----------------------------------------------------------------------------
(* The state machine: one action per call of the public interface, and the *)
(* clock.                                                                  *)

NoLocation == [city |-> <<>>, country |-> <<>>]
NoStats == [totalEntries |-> 0, validEntries |-> 0, expiredEntries |-> 0]

\* A call as `last` records it; removed is the number of entries the call
\* took out of the map.
Call(op, type, location, data, ret, stats, removed) ==
  [op |-> op, type |-> type, location |-> location, data |-> data,
   ret |-> ret, stats |-> stats, removed |-> removed]

size(c) == Cardinality(DOMAIN c)

\* The period of the timer that runs cleanup(), in ms.
SweepInterval == 5 * 60 * 1000

\* How an invocation of fetchEnvironmentalData ended, as `done` records it:
\* "hit" it returned the cached object, "stored" it built an object, called
\* set with it and returned it; and the value it returned.
Ended(outcome, ret) == [outcome |-> outcome, ret |-> ret]

NoCall == Ended("none", Null)

\* The components that call fetchEnvironmentalData; each awaits its call
\* before it calls again.
Components == {"Dashboard", "GlobeEarthVisualization"}

\* A fetcher called by fetchEnvironmentalData: "idle" not called yet, "net"
\* awaiting its requests, "ok" returned val, "rejected" threw; and the number
\* of entries its get took out of the map.
Slot(st, val, removed) == [st |-> st, val |-> val, removed |-> removed]

IdleSlot == Slot("idle", Null, 0)

\* The slot of a fetcher whose head gave b.
slotAfterBegin(b) ==
  IF b.hit THEN Slot("ok", b.ret, b.removed) ELSE Slot("net", Null, b.removed)

\* An invocation of fetchEnvironmentalData.  pc: "idle" none, "leaves"
\* awaiting Promise.allSettled, "issues" awaiting identifyCriticalIssues;
\* req: the number of its requests (0: it has made none).
Invocation(pc, req, w, s, n, ci) ==
  [pc |-> pc, req |-> req, w |-> w, s |-> s, n |-> n, ci |-> ci]

NotCalling == Invocation("idle", 0, IdleSlot, IdleSlot, IdleSlot, IdleSlot)

\* An invocation of fetchSatelliteData.  pc: "idle" none in progress,
\* "probing" awaiting the answer to the probe of layer `layer` at date `date`,
\* "analysing" awaiting analyzeSatelliteWithGemini; imageUrl as it stands;
\* answer: how the latest probe was answered; probes: requests for imagery
\* answered, and sets: calls to cacheService.set, since the invocation began;
\* ret: what it returned.
Search(pc, date, layer, imageUrl, answer, probes, sets, ret) ==
  [pc |-> pc, date |-> date, layer |-> layer, imageUrl |-> imageUrl,
   answer |-> answer, probes |-> probes, sets |-> sets, ret |-> ret]

NoSearch == Search("idle", 0, 0, 0, "none", 0, 0, Null)

Init ==
  /\ cache = << >>
  /\ now = 0
  /\ last = Call("new", <<>>, NoLocation, Null, Null, NoStats, 0)
  /\ written = << >>
  /\ nsets = 0
  /\ nextSweep = SweepInterval
  /\ nsweeps = 0
  /\ calls = [component \in Components |-> NotCalling]
  /\ done = NoCall
  /\ lazy = << >>
  /\ probe = NoSearch

Get(type, location) ==
  LET r == cacheGet(cache, now, type, location)
  IN  /\ cache' = r.cache
      /\ last' = Call("get", type, location, Null, r.ret, NoStats,
                      size(cache) - size(r.cache))
      /\ UNCHANGED <<now, written, nsets>>

Set(type, location, data, drift) ==
  /\ now' = now + drift
  /\ cache' = cacheSet(cache, now, now', type, location, data)
  /\ last' = Call("set", type, location, data, Null, NoStats, 0)
  /\ written' = mapSet(written, generateKey(type, location),
                       [location |-> location, data |-> data, at |-> now',
                        cleared |-> FALSE])
  /\ nsets' = nsets + 1

Cleanup ==
  /\ cache' = cacheCleanup(cache, now)
  /\ last' = Call("cleanup", <<>>, NoLocation, Null, Null, NoStats,
                  size(cache) - size(cache'))
  /\ UNCHANGED <<now, written, nsets>>

Clear ==
  /\ cache' = cacheClear(cache)
  /\ last' = Call("clear", <<>>, NoLocation, Null, Null, NoStats,
                  size(cache) - size(cache'))
  /\ written' = [k \in DOMAIN written |-> [written[k] EXCEPT !.cleared = TRUE]]
  /\ UNCHANGED <<now, nsets>>

GetStats ==
  /\ last' = Call("getStats", <<>>, NoLocation, Null, Null,
                  getStats(cache, now), 0)
  /\ UNCHANGED <<cache, now, written, nsets>>

\* The instants at which some comparison of the code can change its outcome:
\* one millisecond before, at, and one millisecond after a stored expiresAt.
TickTargets ==
  {cache[k].expiresAt + d : k \in DOMAIN cache, d \in {-1, 0, 1}}

\* Date.now() moves forward
Tick(t) ==
  /\ t > now
  /\ now' = t
  /\ last' = Call("tick", <<>>, NoLocation, Null, Null, NoStats, 0)
  /\ UNCHANGED <<cache, written, nsets>>

\* The calls a client can make, with kinds K and locations L, and at most
\* maxSets set calls.
NextOver(K, L, maxSets) ==
  \/ \E type \in K, location \in L :
        Get(type, location) /\ UNCHANGED <<timerVars, fetchVars, lazy, probe>>
  \/ \E type \in K, location \in L, drift \in ClockDrift :
        /\ nsets < maxSets
        /\ Set(type, location, Payload(nsets + 1), drift)
        /\ UNCHANGED <<timerVars, fetchVars, lazy, probe>>
  \/ Cleanup /\ UNCHANGED <<timerVars, fetchVars, lazy, probe>>
  \/ Clear /\ UNCHANGED <<timerVars, fetchVars, lazy, probe>>
  \/ GetStats /\ UNCHANGED <<timerVars, fetchVars, lazy, probe>>
  \/ \E t \in TickTargets : Tick(t) /\ UNCHANGED <<timerVars, fetchVars, lazy, probe>>

\* Two kinds with different times to live, at one location.
MainKinds == {weather, satellite}
MainLocations == {NewYorkUS}

Next == NextOver(MainKinds, MainLocations, MaxSets)

Spec == Init /\ [][Next]_vars

\* One kind, two spellings of one location and another location.
NextKey == NextOver({weather}, Locations, MaxSets)

SpecKey == Init /\ [][NextKey]_vars

\* Every kind, one location.
NextTTL == NextOver(Kinds, {LagosNG}, MaxSetsTTL)

SpecTTL == Init /\ [][NextTTL]_vars

\* getDebugInfo() is called; `last` records what it returns.
GetDebugInfo ==
  /\ last' = Call("getDebugInfo", <<>>, NoLocation, Null,
                  getDebugInfo(cache, now), NoStats, 0)
  /\ UNCHANGED <<cache, now, written, nsets>>

\* Kinds with and without an underscore, cities of one and of two words.
DebugKinds == {weather, environmental_data}
DebugLocations == {NewYorkUS, LagosNG}

NextDebug ==
  \/ \E type \in DebugKinds, location \in DebugLocations, drift \in ClockDrift :
        /\ nsets < MaxSets
        /\ Set(type, location, Payload(nsets + 1), drift)
        /\ UNCHANGED <<timerVars, fetchVars, lazy, probe>>
  \/ GetDebugInfo /\ UNCHANGED <<timerVars, fetchVars, lazy, probe>>
  \/ \E t \in TickTargets : Tick(t) /\ UNCHANGED <<timerVars, fetchVars, lazy, probe>>

SpecDebug == Init /\ [][NextDebug]_vars

\* One kind, at locations that differ in their city or in where the city ends
\* and the country begins.
TupleLocations == {NewYorkUS, NewYorkCityUS, New_YorkUS}

NextTuple == NextOver({weather}, TupleLocations, MaxSets)

SpecTuple == Init /\ [][NextTuple]_vars

\* Two CacheServices side by side: every get, set and clear is made on both,
\* at the same values of Date.now(); cleanup() is called on the first only.
TwinGet(type, location) ==
  /\ Get(type, location)
  /\ lazy' = cacheGet(lazy, now, type, location).cache

TwinSet(type, location, data, drift) ==
  /\ Set(type, location, data, drift)
  /\ lazy' = cacheSet(lazy, now, now', type, location, data)

TwinClear ==
  /\ Clear
  /\ lazy' = cacheClear(lazy)

NextTwin ==
  \/ \E type \in MainKinds, location \in MainLocations :
        TwinGet(type, location) /\ UNCHANGED <<timerVars, fetchVars, probe>>
  \/ \E type \in MainKinds, location \in MainLocations, drift \in ClockDrift :
        /\ nsets < MaxSets
        /\ TwinSet(type, location, Payload(nsets + 1), drift)
        /\ UNCHANGED <<timerVars, fetchVars, probe>>
  \/ TwinClear /\ UNCHANGED <<timerVars, fetchVars, probe>>
  \/ Cleanup /\ UNCHANGED <<lazy, timerVars, fetchVars, probe>>
  \/ \E t \in TickTargets \cup {lazy[k].expiresAt + d : k \in DOMAIN lazy,
                                                       d \in {-1, 0, 1}} :
        Tick(t) /\ UNCHANGED <<lazy, timerVars, fetchVars, probe>>

SpecTwin == Init /\ [][NextTwin]_vars

\* The interval timer: cleanup() runs when the timer is due, and the timer is
\* due again one period after the time it was due.
TimerCleanup ==
  /\ now >= nextSweep
  /\ nsweeps < MaxSweeps
  /\ Cleanup
  /\ nextSweep' = nextSweep + SweepInterval
  /\ nsweeps' = nsweeps + 1

SweepLocations == {NewYorkUS, LagosNG}

\* One kind at two locations with cleanup() run by the timer only.  The timer
\* callback is the next call to run once it is due: the clock does not pass
\* nextSweep by waiting, and a client call starts only while now <= nextSweep
\* (a set that starts at nextSweep can end one millisecond after it).
NextSweep ==
  \/ \E location \in SweepLocations :
        /\ now <= nextSweep
        /\ Get(weather, location)
        /\ UNCHANGED <<timerVars, fetchVars, lazy, probe>>
  \/ \E location \in SweepLocations, drift \in ClockDrift :
        /\ now <= nextSweep
        /\ nsets < MaxSets
        /\ Set(weather, location, Payload(nsets + 1), drift)
        /\ UNCHANGED <<timerVars, fetchVars, lazy, probe>>
  \/ now <= nextSweep /\ Clear /\ UNCHANGED <<timerVars, fetchVars, lazy, probe>>
  \/ \E t \in TickTargets \cup {nextSweep} :
        /\ t <= nextSweep
        /\ Tick(t)
        /\ UNCHANGED <<timerVars, fetchVars, lazy, probe>>
  \/ TimerCleanup /\ UNCHANGED <<fetchVars, lazy, probe>>

SpecSweep == Init /\ [][NextSweep]_vars

----------------------------------------------------------------------------
(* APIService (src/src/services/apiService.ts): the fetchers that read     *)
(* through the cache.  The components (Dashboard, GlobeEarthVisualization) *)
(* call fetchEnvironmentalData, which calls the four other fetchers.  A    *)
(* fetcher runs without interruption from its call to its first await (its *)
(* get and, on a miss, its first request), and again from the arrival of   *)
(* its responses to its return (its set): those are the steps below.       *)
(* Other invocations, the timer and the clock come between them.  The API  *)
(* keys are configured.                                                    *)

\* The kind each fetcher passes to get and set.
typeOf(f) ==
  CASE f = "fetchWeatherData"       -> weather
    [] f = "fetchSatelliteData"     -> satellite
    [] f = "fetchEnvironmentalNews" -> news
    [] f = "identifyCriticalIssues" -> criticalIssues
    [] f = "fetchEnvironmentalData" -> environmental_data

\* The location the components ask for.
FetchLocation == NewYorkUS

\* The requests of the invocations that miss are numbered in the order in
\* which they are issued: the clock stands still while an invocation awaits,
\* at most two invocations miss at one value of the clock (the second begins
\* while the first awaits: overlapping), and the clock values at which
\* invocations begin are multiples of the shortest time to live.  Where the
\* services answer all requests alike (numbered is FALSE) the number is 1.
RequestNo(t, overlapping, numbered) ==
  IF numbered
  THEN 1 + 2 * (t \div config.environmentalDataTTL)
         + (IF overlapping THEN 1 ELSE 0)
  ELSE 1

\* What fetchWeatherData, fetchSatelliteData and fetchEnvironmentalNews make
\* of the responses to request r: a different value for every request.
Response(f, r) ==
  CASE f = "fetchWeatherData"       -> 10 + r
    [] f = "fetchSatelliteData"     -> 20 + r
    [] f = "fetchEnvironmentalNews" -> 30 + r

\* The request whose response the value v is; 0 for the stand-ins below.
requestOf(v) == IF v < 0 THEN 0 ELSE v % 10

\* The prompt identifyCriticalIssues builds from its arguments weatherData,
\* satelliteData and newsData, as the number of the request it makes with it:
\* a different one for different arguments (111 where the service answers
\* all requests alike).
Prompt(weatherData, satelliteData, newsData, numbered) ==
  IF numbered
  THEN 100 * requestOf(weatherData) + 10 * requestOf(satelliteData)
         + requestOf(newsData)
  ELSE 111

\* What identifyCriticalIssues makes of the answer to its prompt.
Analysis(prompt) == 4000 + prompt

\* What stands in for data that could not be fetched: getDefaultWeatherData,
\* getDefaultSatelliteData, the empty array of news items, and the issues of
\* generateEnhancedDefaultIssues.
DefaultWeatherData == -1
DefaultSatelliteData == -2
EmptyNews == -3
DefaultIssues == -4

\* The object {criticalIssues, satelliteData, weatherData, newsData} that
\* fetchEnvironmentalData builds, as the number that stands for it: after a
\* leading 1, four decimal digits for criticalIssues (0000 for the default
\* issues) and one each for weatherData, satelliteData and newsData (the
\* request, 0 for the stand-in).
EnvironmentalData(issues, satelliteData, weatherData, newsData) ==
  10000000 + 1000 * (IF issues < 0 THEN 0 ELSE issues)
           + 100 * requestOf(weatherData) + 10 * requestOf(satelliteData)
           + requestOf(newsData)

\* The parts of the object the number d stands for.
partsOf(d) ==
  LET issues == (d - 10000000) \div 1000
      w == (d % 1000) \div 100
      s == (d % 100) \div 10
      n == d % 10
  IN  [criticalIssues |-> IF issues = 0 THEN DefaultIssues ELSE issues,
       satelliteData  |-> IF s = 0 THEN DefaultSatelliteData
                          ELSE Response("fetchSatelliteData", s),
       weatherData    |-> IF w = 0 THEN DefaultWeatherData
                          ELSE Response("fetchWeatherData", w),
       newsData       |-> IF n = 0 THEN EmptyNews
                          ELSE Response("fetchEnvironmentalNews", n)]

\* if (cachedData)
Truthy(x) == x # Null

\* As fetcherBegin without the look into the cache.
fetcherBegin_noCache(c, t, f) ==
  [cache |-> c, hit |-> FALSE, ret |-> Null, removed |-> 0]

\* The head of every fetcher: const cachedData = cacheService.get(kind,
\* location); if (cachedData) return cachedData.  The map afterwards, whether
\* the fetcher returns here, with what, and how many entries get removed.
fetcherBegin(c, t, f) ==
  LET r == cacheGet(c, t, typeOf(f), FetchLocation)
  IN  [cache |-> r.cache, hit |-> Truthy(r.ret), ret |-> r.ret,
       removed |-> size(c) - size(r.cache)]

\* How the requests of a fetcher can end.  fetchSatelliteData catches every
\* failed request and goes on with a constructed image URL and analysis.
Outcomes(f) == IF f = "fetchSatelliteData" THEN {"ok"} ELSE {"ok", "fail"}

\* As fetcherSettle with the fallback of the catch branch put into the cache.
fetcherSettle_cacheFallback(f, outcome, response) ==
  IF outcome = "ok"
  THEN [store |-> TRUE, data |-> response, throws |-> FALSE]
  ELSE CASE f = "fetchWeatherData" ->
              [store |-> FALSE, data |-> Null, throws |-> TRUE]
         [] f = "fetchEnvironmentalNews" ->
              [store |-> TRUE, data |-> EmptyNews, throws |-> FALSE]
         [] f = "identifyCriticalIssues" ->
              [store |-> TRUE, data |-> DefaultIssues, throws |-> FALSE]

\* The tail of a leaf fetcher: on success it calls set with what it made of
\* the responses and returns it; on failure fetchWeatherData throws,
\* fetchEnvironmentalNews returns [] and identifyCriticalIssues returns
\* default issues, none of them calling set.
fetcherSettle(f, outcome, response) ==
  IF outcome = "ok"
  THEN [store |-> TRUE, data |-> response, throws |-> FALSE]
  ELSE CASE f = "fetchWeatherData" ->
              [store |-> FALSE, data |-> Null, throws |-> TRUE]
         [] f = "fetchEnvironmentalNews" ->
              [store |-> FALSE, data |-> EmptyNews, throws |-> FALSE]
         [] f = "identifyCriticalIssues" ->
              [store |-> FALSE, data |-> DefaultIssues, throws |-> FALSE]

\* The history of direct calls on the cache (last, written, nsets) is not
\* kept by the steps of the fetchers: `done` and the slots are their history.
callHistory == <<last, written, nsets>>

\* cacheService.set(type, FetchLocation, data) called by a fetcher.  Both
\* reads of Date.now() return the same value here; the runs in which they
\* differ are those of Spec.
Store(type, data) ==
  /\ cache' = cacheSet(cache, now, now, type, FetchLocation, data)
  /\ UNCHANGED now

\* The timer runs cleanup().
Sweep ==
  /\ cache' = cacheCleanup(cache, now)
  /\ UNCHANGED now

\* Date.now() moves forward to t, between invocations.
Elapse(t) ==
  /\ \A component \in Components : calls[component] = NotCalling
  /\ t > now
  /\ t <= MaxPeriods * SweepInterval
  /\ now' = t
  /\ UNCHANGED cache

\* A component calls fetchEnvironmentalData: its get and, on a miss, the
\* heads of the three fetchers handed to Promise.allSettled.
BeginEnv(component, numbered) ==
  LET b == fetcherBegin(cache, now, "fetchEnvironmentalData")
      bw == fetcherBegin(b.cache, now, "fetchWeatherData")
      bs == fetcherBegin(bw.cache, now, "fetchSatelliteData")
      bn == fetcherBegin(bs.cache, now, "fetchEnvironmentalNews")
      overlapping == \E other \in Components \ {component} :
                       calls[other] # NotCalling
  IN  /\ calls[component] = NotCalling
      /\ IF b.hit
         THEN /\ cache' = b.cache
              /\ done' = Ended("hit", b.ret)
              /\ UNCHANGED calls
         ELSE /\ cache' = bn.cache
              /\ calls' = [calls EXCEPT ![component] =
                   Invocation("leaves",
                              RequestNo(now, overlapping, numbered),
                              slotAfterBegin(bw), slotAfterBegin(bs),
                              slotAfterBegin(bn), IdleSlot)]
              /\ UNCHANGED done
      /\ UNCHANGED now

\* The fetcher behind each slot of fetchEnvironmentalData.
slotFetcher(name) ==
  CASE name = "w"  -> "fetchWeatherData"
    [] name = "s"  -> "fetchSatelliteData"
    [] name = "n"  -> "fetchEnvironmentalNews"
    [] name = "ci" -> "identifyCriticalIssues"

\* The requests of a fetcher called by the invocation of component are over:
\* its tail.
LeafFinish(component, name, outcome, numbered) ==
  LET c == calls[component]
      f == slotFetcher(name)
      response == IF name = "ci"
                  THEN Analysis(Prompt(c.w.val, c.s.val, c.n.val, numbered))
                  ELSE Response(f, c.req)
      r == fetcherSettle(f, outcome, response)
  IN  /\ c.pc = IF name = "ci" THEN "issues" ELSE "leaves"
      /\ c[name].st = "net"
      /\ outcome \in Outcomes(f)
      /\ IF r.store
         THEN Store(typeOf(f), r.data)
         ELSE UNCHANGED <<cache, now>>
      /\ calls' = [calls EXCEPT ![component][name] =
           Slot(IF r.throws THEN "rejected" ELSE "ok", r.data,
                c[name].removed)]
      /\ UNCHANGED done

\* Promise.allSettled has resolved: fetchEnvironmentalData takes the values
\* or the defaults and calls identifyCriticalIssues (its head).
EnvAnalyse(component) ==
  LET c == calls[component]
      b == fetcherBegin(cache, now, "identifyCriticalIssues")
      weatherData == IF c.w.st = "ok" THEN c.w.val ELSE DefaultWeatherData
      satelliteData == IF c.s.st = "ok" THEN c.s.val ELSE DefaultSatelliteData
      newsData == IF c.n.st = "ok" THEN c.n.val ELSE EmptyNews
  IN  /\ c.pc = "leaves"
      /\ \A name \in {"w", "s", "n"} : c[name].st \in {"ok", "rejected"}
      /\ cache' = b.cache
      /\ calls' = [calls EXCEPT ![component] =
           [c EXCEPT !.pc = "issues",
                     !.w.val = weatherData,
                     !.s.val = satelliteData,
                     !.n.val = newsData,
                     !.ci = slotAfterBegin(b)]]
      /\ UNCHANGED <<now, done>>

\* identifyCriticalIssues has returned: fetchEnvironmentalData builds
\* finalData, calls set with it and returns it.
EnvStore(component) ==
  LET c == calls[component]
      finalData == EnvironmentalData(c.ci.val, c.s.val, c.w.val, c.n.val)
  IN  /\ c.pc = "issues"
      /\ c.ci.st = "ok"
      /\ Store(environmental_data, finalData)
      /\ done' = Ended("stored", finalData)
      /\ calls' = [calls EXCEPT ![component] = NotCalling]

\* The components in C call fetchEnvironmentalData, responses arrive, the
\* timer runs cleanup() at any time, and the clock moves, while no invocation
\* is awaiting, to the instants at which entries expire.  numbered: the
\* services answer every request differently; otherwise all alike.
NextFetchOver(C, numbered) ==
  \/ \E component \in C :
        BeginEnv(component, numbered)
          /\ UNCHANGED <<timerVars, callHistory, lazy, probe>>
  \/ \E component \in Components, name \in {"w", "s", "n", "ci"},
        outcome \in {"ok", "fail"} :
        LeafFinish(component, name, outcome, numbered)
          /\ UNCHANGED <<timerVars, callHistory, lazy, probe>>
  \/ \E component \in Components :
        EnvAnalyse(component) /\ UNCHANGED <<timerVars, callHistory, lazy, probe>>
  \/ \E component \in Components :
        EnvStore(component) /\ UNCHANGED <<timerVars, callHistory, lazy, probe>>
  \/ Sweep /\ UNCHANGED <<fetchVars, timerVars, callHistory, lazy, probe>>
  \/ \E t \in {cache[k].expiresAt : k \in DOMAIN cache} :
        Elapse(t) /\ UNCHANGED <<fetchVars, timerVars, callHistory, lazy, probe>>

\* Both components call; the services answer all requests alike.
NextFetch == NextFetchOver(Components, FALSE)

SpecFetch == Init /\ [][NextFetch]_vars

\* One component calls again and again as the entries expire; the services
\* answer every request differently.
NextBundle == NextFetchOver({"Dashboard"}, TRUE)

SpecBundle == Init /\ [][NextBundle]_vars

\* Both components call at the clock value of construction, before the
\* timer is due, so that their invocations overlap; the services answer
\* every request differently.
NextRace ==
  \/ \E component \in Components :
        BeginEnv(component, TRUE)
          /\ UNCHANGED <<timerVars, callHistory, lazy, probe>>
  \/ \E component \in Components, name \in {"w", "s", "n", "ci"},
        outcome \in {"ok", "fail"} :
        LeafFinish(component, name, outcome, TRUE)
          /\ UNCHANGED <<timerVars, callHistory, lazy, probe>>
  \/ \E component \in Components :
        EnvAnalyse(component) /\ UNCHANGED <<timerVars, callHistory, lazy, probe>>
  \/ \E component \in Components :
        EnvStore(component) /\ UNCHANGED <<timerVars, callHistory, lazy, probe>>

SpecRace == Init /\ [][NextRace]_vars

----------------------------------------------------------------------------
(* fetchSatelliteData's search for imagery (apiService.ts lines 137-300):  *)
(* after a miss it probes, date by date from today backwards and layer by  *)
(* layer, for a tile that exists, awaiting the answer to each probe; then  *)
(* it awaits the analysis of the image, calls set and returns.             *)

\* for (let i = 0; i < 7; i++) dates.push(...)
NumDates == 7

\* const layers = [MODIS_Terra_..., MODIS_Aqua_...]
NumLayers == 2

\* let imageUrl = ''
EmptyUrl == 0

\* testUrl for the layer and date, counted from 0: a non-empty string, a
\* different one for every layer and date
TestUrl(date, layer) == 1 + NumLayers * date + layer

\* the URL of the default NASA tile, non-empty
FallbackUrl == NumDates * NumLayers + 1

\* How a probe ends: response.ok, a response that is not ok, or fetch throws.
Answers == {"ok", "notok", "throws"}

\* As probeStep with a catch block that only logs: the search goes on after
\* a probe that throws.
probeStep_ignoreThrow(date, layer, answer) ==
  IF answer = "ok"
  THEN [over |-> TRUE, imageUrl |-> TestUrl(date, layer),
        date |-> date, layer |-> layer]
  ELSE IF layer + 1 < NumLayers
       THEN [over |-> FALSE, imageUrl |-> EmptyUrl,
             date |-> date, layer |-> layer + 1]
       ELSE IF date + 1 < NumDates
            THEN [over |-> FALSE, imageUrl |-> EmptyUrl,
                  date |-> date + 1, layer |-> 0]
            ELSE [over |-> TRUE, imageUrl |-> EmptyUrl,
                  date |-> date, layer |-> layer]

\* The loops over dates and layers from the answer to the probe of (date,
\* layer) to the next probe or to the end of the loops: imageUrl, whether
\* the loops are over, and the probe that comes next if they are not.
probeStep(date, layer, answer) ==
  IF answer \in {"ok", "throws"}
  THEN [over |-> TRUE, imageUrl |-> TestUrl(date, layer),
        date |-> date, layer |-> layer]
  ELSE IF layer + 1 < NumLayers
       THEN [over |-> FALSE, imageUrl |-> EmptyUrl,
             date |-> date, layer |-> layer + 1]
       ELSE IF date + 1 < NumDates
            THEN [over |-> FALSE, imageUrl |-> EmptyUrl,
                  date |-> date + 1, layer |-> 0]
            ELSE [over |-> TRUE, imageUrl |-> EmptyUrl,
                  date |-> date, layer |-> layer]

\* if (!imageUrl) imageUrl = the default NASA tile
orFallback(imageUrl) == IF imageUrl = EmptyUrl THEN FallbackUrl ELSE imageUrl

\* const satelliteData = {imageUrl, ..., summary: aiAnalysis.summary, ...},
\* with aiAnalysis the answer of analyzeSatelliteWithGemini (analysed) or the
\* default analysis of the catch block; as the number that stands for it.
SatelliteData(imageUrl, analysed) ==
  100 + 2 * imageUrl + (IF analysed THEN 1 ELSE 0)

\* satelliteData.imageUrl
imageUrlOf(satelliteData) == (satelliteData - 100) \div 2

\* fetchSatelliteData is called: its get and, on a miss, the first probe.
SatBegin ==
  LET b == fetcherBegin(cache, now, "fetchSatelliteData")
  IN  /\ probe.pc = "idle"
      /\ cache' = b.cache
      /\ probe' = IF b.hit
                  THEN Search("idle", 0, 0, EmptyUrl, "none", 0, 0, b.ret)
                  ELSE Search("probing", 0, 0, EmptyUrl, "none", 0, 0, Null)
      /\ UNCHANGED now

\* The probe is answered: on to the next probe, or out of the loops, to the
\* fallback if imageUrl is empty and to the request for the analysis.
SatProbe(answer) ==
  LET r == probeStep(probe.date, probe.layer, answer)
  IN  /\ probe.pc = "probing"
      /\ probe' = [probe EXCEPT
                     !.pc = IF r.over THEN "analysing" ELSE "probing",
                     !.date = r.date,
                     !.layer = r.layer,
                     !.imageUrl = IF r.over THEN orFallback(r.imageUrl)
                                  ELSE r.imageUrl,
                     !.answer = answer,
                     !.probes = @ + 1]
      /\ UNCHANGED <<cache, now>>

\* The analysis is back, or has failed: fetchSatelliteData builds
\* satelliteData, calls set with it and returns it.
SatAnalyse(analysed) ==
  LET satelliteData == SatelliteData(probe.imageUrl, analysed)
  IN  /\ probe.pc = "analysing"
      /\ Store(satellite, satelliteData)
      /\ probe' = [probe EXCEPT !.pc = "idle", !.sets = @ + 1,
                                !.ret = satelliteData]

\* Date.now() moves forward to t, between invocations.
SatElapse(t) ==
  /\ probe.pc = "idle"
  /\ t > now
  /\ t <= MaxSatelliteLives * config.satelliteTTL
  /\ now' = t
  /\ UNCHANGED <<cache, probe>>

\* The probe in flight is answered.
SatAnswer ==
  \E answer \in Answers :
    SatProbe(answer) /\ UNCHANGED <<fetchVars, timerVars, callHistory, lazy>>

\* The request for the analysis settles.
SatAnalysed ==
  \E analysed \in BOOLEAN :
    SatAnalyse(analysed)
      /\ UNCHANGED <<fetchVars, timerVars, callHistory, lazy>>

NextProbe ==
  \/ SatBegin /\ UNCHANGED <<fetchVars, timerVars, callHistory, lazy>>
  \/ SatAnswer
  \/ SatAnalysed
  \/ \E t \in {cache[k].expiresAt : k \in DOMAIN cache} :
        SatElapse(t) /\ UNCHANGED <<fetchVars, timerVars, callHistory, lazy>>

\* Every awaited promise settles, with a response or with an error, and
\* the continuation that waits for it then runs.
FairProbe == WF_vars(SatAnswer) /\ WF_vars(SatAnalysed)

SpecProbe == Init /\ [][NextProbe]_vars /\ FairProbe

----------------------------------------------------------------------------
(* What the specification says, for the claims below.                      *)

\* The time to live the specification gives each kind (section 4.1), in ms.
ttlOf(type) ==
  CASE type = weather            -> 600000
    [] type = news               -> 1800000
    [] type = satellite          -> 3600000
    [] type = criticalIssues     -> 900000
    [] type = environmental_data -> 300000
    [] OTHER                     -> 300000

\* The text s with letter case folded and every run of whitespace counted as
\* one separator.
RECURSIVE FoldText(_)
FoldText(s) ==
  IF s = <<>> THEN <<>>
  ELSE LET rest == FoldText(Tail(s))
       IN  IF isWhitespace(Head(s))
           THEN IF rest # <<>> /\ Head(rest) = " " THEN rest ELSE <<" ">> \o rest
           ELSE <<toLowerCaseChar(Head(s))>> \o rest

\* Two locations that differ only in letter case and amount of whitespace.
SameLocation(a, b) ==
  /\ FoldText(a.city) = FoldText(b.city)
  /\ FoldText(a.country) = FoldText(b.country)

\* The key of the call `last` records, and of the call the step makes.
lastKey == generateKey(last.type, last.location)
stepKey == generateKey(last'.type, last'.location)

\* The latest set on the key of the last call, if clear() has not come since.
Live(key) == key \in DOMAIN written /\ ~written[key].cleared

\* The state of key k in the map c at clock t.
status(c, t, k) ==
  IF k \notin DOMAIN c THEN "absent"
  ELSE IF t < c[k].expiresAt THEN "valid" ELSE "stale"

\* The key a fetcher reads and writes.
fetchKey(f) == generateKey(typeOf(f), FetchLocation)

\* The slots of an invocation of fetchEnvironmentalData.
SlotNames == {"w", "s", "n", "ci"}

\* In this step the fetcher of slot name, called by component, ...
\* is called and finds no valid entry: it goes to the network;
SlotMisses(component, name) ==
  /\ calls[component][name].st = "idle"
  /\ calls'[component][name].st = "net"
\* is called and returns the cached data;
SlotHits(component, name) ==
  /\ calls[component][name].st = "idle"
  /\ calls'[component][name].st = "ok"
\* has its requests answered, calls set and returns the data;
SlotStores(component, name) ==
  /\ calls[component][name].st = "net"
  /\ calls'[component][name].st = "ok"
  /\ calls'[component][name].val > 0
\* ends on its failure path: it throws or returns its fallback.
SlotFails(component, name) ==
  /\ calls[component][name].st = "net"
  /\ \/ calls'[component][name].st = "rejected"
     \/ calls'[component][name].st = "ok" /\ calls'[component][name].val < 0

\* The data that stand in for data not fetched.
Placeholders ==
  {DefaultWeatherData, DefaultSatelliteData, EmptyNews, DefaultIssues}

----------------------------------------------------------------------------
(* C1.  Round trip: a set(kind, location, data) immediately followed by    *)
(* get(kind, location), with no other call and no clock advance between,   *)
(* returns exactly data, given ttl(kind) > 0.                              *)

C1_RoundTrip ==
  [][ ( /\ last.op = "set"
        /\ last'.op = "get"
        /\ last'.type = last.type
        /\ last'.location = last.location
        /\ ttlOf(last.type) > 0 )
      => last'.ret = last.data ]_vars

\* a get has returned the payload of a set made at this very clock value
\* with the same arguments
C1_Witness ==
  /\ last.op = "get"
  /\ last.ret # Null
  /\ Live(lastKey)
  /\ written[lastKey].at = now
  /\ written[lastKey].location = last.location
  /\ written[lastKey].data = last.ret

----------------------------------------------------------------------------
(* C2.  Lazy expiry: a get on a key whose stored entry has                 *)
(* now >= expiresAt returns null, and the entry is gone afterwards:        *)
(* getStats().totalEntries is one lower than just before the call.         *)

C2_LazyExpiry ==
  [][ ( /\ last'.op = "get"
        /\ stepKey \in DOMAIN cache
        /\ now >= cache[stepKey].expiresAt )
      => ( /\ last'.ret = Null
           /\ stepKey \notin DOMAIN cache'
           /\ getStats(cache', now').totalEntries
                = getStats(cache, now).totalEntries - 1 ) ]_vars

\* a get has missed and taken one entry out of the map
C2_Witness ==
  /\ last.op = "get"
  /\ last.ret = Null
  /\ last.removed = 1

----------------------------------------------------------------------------
(* C3.  Expiry boundary: for an entry set at time t (the clock value set   *)
(* stamped expiresAt from) with time to live T, a get at t+T-1 returns the *)
(* stored data; a get at t+T or at t+T+1 returns null and lowers the total *)
(* entry count by one.  T is 3,600,000 ms for 'satellite'.                 *)

C3_ExpiryBoundary ==
  [][ ( /\ last'.op = "get"
        /\ stepKey \in DOMAIN cache
        /\ Live(stepKey) )
      => LET t == written[stepKey].at
             T == ttlOf(last'.type)
         IN  /\ now = t + T - 1 =>
                  /\ last'.ret = written[stepKey].data
                  /\ cache' = cache
             /\ now \in {t + T, t + T + 1} =>
                  /\ last'.ret = Null
                  /\ getStats(cache', now').totalEntries
                       = getStats(cache, now).totalEntries - 1 ]_vars

\* a get of a 'satellite' entry 3,600,001 ms after its set has missed and
\* taken the entry out
C3_Witness ==
  /\ last.op = "get"
  /\ last.type = satellite
  /\ Live(lastKey)
  /\ now = written[lastKey].at + 3600001
  /\ last.ret = Null
  /\ last.removed = 1

----------------------------------------------------------------------------
(* C4.  Overwrite, last set wins: a set on a key that already holds an     *)
(* entry adds no second entry; the entry afterwards carries the data of    *)
(* that set and an expiry stamped from that set; and a get within the time *)
(* to live of the latest set returns the data of the latest set only.      *)

C4_LastSetWins ==
  [][ /\ last'.op = "set" =>
           /\ stepKey \in DOMAIN cache'
           /\ cache'[stepKey].data = last'.data
           /\ cache'[stepKey].expiresAt = now' + ttlOf(last'.type)
           /\ stepKey \in DOMAIN cache => size(cache') = size(cache)
      /\ ( /\ last'.op = "get"
           /\ Live(stepKey)
           /\ now < written[stepKey].at + ttlOf(last'.type) )
         => last'.ret = written[stepKey].data ]_vars

\* both set calls went to one key, and a get has returned the second payload
C4_Witness ==
  /\ nsets = 2
  /\ DOMAIN written = {lastKey}
  /\ last.op = "get"
  /\ last.ret = Payload(2)

----------------------------------------------------------------------------
(* C5.  Key derivation is case- and whitespace-insensitive: a set through  *)
(* one location is returned by the get that follows it through another     *)
(* location whose city and country differ only in letter case and in the   *)
(* amount of whitespace.                                                   *)

C5_KeyInsensitive ==
  [][ ( /\ last.op = "set"
        /\ last'.op = "get"
        /\ last'.type = last.type
        /\ last'.location # last.location
        /\ SameLocation(last.location, last'.location) )
      => last'.ret = last.data ]_vars

\* a get has returned what a set stored under another spelling of the
\* location
C5_Witness ==
  /\ last.op = "get"
  /\ last.ret # Null
  /\ Live(lastKey)
  /\ written[lastKey].location # last.location
  /\ SameLocation(written[lastKey].location, last.location)
  /\ written[lastKey].data = last.ret

----------------------------------------------------------------------------
(* C6.  cleanup() removes exactly the entries with expiresAt <= now and    *)
(* leaves every other entry in place with data, timestamp and expiresAt    *)
(* unchanged.                                                              *)

C6_CleanupExact ==
  [][ last'.op = "cleanup" =>
        /\ DOMAIN cache' = {k \in DOMAIN cache : ~(cache[k].expiresAt <= now)}
        /\ \A k \in DOMAIN cache' : cache'[k] = cache[k] ]_vars

\* a cleanup has removed one entry and kept another
C6_Witness ==
  /\ last.op = "cleanup"
  /\ last.removed = 1
  /\ size(cache) = 1

----------------------------------------------------------------------------
(* C7.  clear() empties the cache: after it getStats().totalEntries is 0,  *)
(* and a get for a key set before the clear returns null until that key is *)
(* set again.                                                              *)

C7_ClearEmpties ==
  [][ /\ last'.op = "clear" => getStats(cache', now').totalEntries = 0
      /\ ( /\ last'.op = "get"
           /\ stepKey \in DOMAIN written
           /\ written[stepKey].cleared )
         => last'.ret = Null ]_vars

\* a get has missed on a key that was set, then cleared, and whose time to
\* live has not run out
C7_Witness ==
  /\ last.op = "get"
  /\ last.ret = Null
  /\ lastKey \in DOMAIN written
  /\ written[lastKey].cleared
  /\ now < written[lastKey].at + ttlOf(last.type)

----------------------------------------------------------------------------
(* C8.  The time to live depends on the kind only: a set at time t (the    *)
(* clock value it reads for expiresAt) stores                              *)
(* expiresAt = t + 10 min for 'weather', 30 min for 'news', 60 min for     *)
(* 'satellite', 15 min for 'criticalIssues', 5 min for                     *)
(* 'environmental_data' and 5 min for any other kind, whatever the         *)
(* location and the payload.                                               *)

C8_TTLByKind ==
  [][ last'.op = "set" =>
        /\ cache'[stepKey].expiresAt = now' + ttlOf(last'.type)
        /\ \A location \in Locations :
             cacheSet(cache, now, now', last'.type, location, Null)
               [generateKey(last'.type, location)].expiresAt
                 = now' + ttlOf(last'.type) ]_vars

\* a set of kind 'criticalIssues' has stored an expiry 15 minutes ahead
C8_Witness ==
  /\ last.op = "set"
  /\ last.type = criticalIssues
  /\ cache[lastKey].expiresAt = now + 15 * 60 * 1000

----------------------------------------------------------------------------
(* C9.  getStats() does not change the cache and returns the number of     *)
(* stored entries, the number with now < expiresAt and the number with     *)
(* now >= expiresAt, so that totalEntries = validEntries + expiredEntries. *)

C9_StatsPure ==
  [][ last'.op = "getStats" =>
        /\ cache' = cache
        /\ last'.stats.totalEntries = Cardinality(DOMAIN cache)
        /\ last'.stats.validEntries =
             Cardinality({k \in DOMAIN cache : now < cache[k].expiresAt})
        /\ last'.stats.expiredEntries =
             Cardinality({k \in DOMAIN cache : now >= cache[k].expiresAt})
        /\ last'.stats.totalEntries =
             last'.stats.validEntries + last'.stats.expiredEntries ]_vars

\* getStats has counted one valid and one expired entry
C9_Witness ==
  /\ last.op = "getStats"
  /\ last.stats.totalEntries = 2
  /\ last.stats.validEntries = 1
  /\ last.stats.expiredEntries = 1

----------------------------------------------------------------------------
(* C10.  A get that hits (entry present, now < expiresAt) leaves the whole *)
(* cache unchanged: data, timestamp and expiresAt are not refreshed, so    *)
(* the entry still expires at set time + ttl(kind).                        *)

C10_HitLeavesCache ==
  [][ ( /\ last'.op = "get"
        /\ stepKey \in DOMAIN cache
        /\ now < cache[stepKey].expiresAt )
      => ( /\ last'.ret = cache[stepKey].data
           /\ cache' = cache
           /\ cache'[stepKey].expiresAt
                = written[stepKey].at + ttlOf(last'.type) ) ]_vars

\* a get has hit in the last millisecond of the entry's life
C10_Witness ==
  /\ last.op = "get"
  /\ last.ret # Null
  /\ Live(lastKey)
  /\ now = written[lastKey].at + ttlOf(last.type) - 1

----------------------------------------------------------------------------
(* C11.  A get on a key that is not in the map (never set, or removed      *)
(* before) is a normal miss: it returns null and leaves the contents of    *)
(* the cache as they were, the delete of the missing key changing nothing. *)

C11_MissIsNormal ==
  [][ ( /\ last'.op = "get"
        /\ stepKey \notin DOMAIN cache )
      => ( /\ last'.ret = Null
           /\ last'.removed = 0
           /\ cache' = cache ) ]_vars

\* a get has missed on a key no set ever wrote, with another entry stored
C11_Witness ==
  /\ last.op = "get"
  /\ last.ret = Null
  /\ lastKey \notin DOMAIN written
  /\ cache # << >>

----------------------------------------------------------------------------
(* C12.  Each key moves only absent -> valid (set on it), valid -> stale   *)
(* (the clock reaches expiresAt), stale -> absent (get on it, cleanup or   *)
(* clear), valid -> absent (clear), and into valid only by a set on it; a  *)
(* get returns null exactly when the key is not valid and leaves it        *)
(* absent, so that later gets miss as well until the key is set again.     *)

C12_EntryLifecycle ==
  [][ /\ now' >= now
      /\ \A k \in DOMAIN cache \cup DOMAIN cache' :
            LET a == status(cache, now, k)
                b == status(cache', now', k)
                setHere == last'.op = "set" /\ stepKey = k
                getHere == last'.op = "get" /\ stepKey = k
            IN  \/ a = b /\ ( b # "valid" \/ setHere \/ cache'[k] = cache[k] )
                \/ b = "valid" /\ setHere
                \/ /\ a = "valid" /\ b = "stale"
                   /\ now' > now
                   /\ cache'[k] = cache[k]
                \/ /\ a = "stale" /\ b = "absent"
                   /\ getHere \/ last'.op \in {"cleanup", "clear"}
                \/ a = "valid" /\ b = "absent" /\ last'.op = "clear"
      /\ last'.op = "get" =>
            /\ (last'.ret = Null) <=> (status(cache, now, stepKey) # "valid")
            /\ last'.ret = Null => status(cache', now', stepKey) = "absent"
    ]_vars

\* clear() has removed an entry that was still valid
C12_Witness ==
  /\ last.op = "clear"
  /\ last.removed > 0
  /\ \E k \in DOMAIN written :
        /\ written[k].cleared
        /\ now < written[k].at + ttlOf(weather)

----------------------------------------------------------------------------
(* C13.  Read-through: a fetcher goes to the network only when get finds   *)
(* no valid entry for its kind and location; when there is one, the        *)
(* fetcher returns that entry's data, issues no request and leaves the     *)
(* cache as it is.  A valid entry stays in the map until it expires (clear *)
(* is never called), so after a fetch that stored, every call begun before *)
(* the expiry makes no request.                                            *)

C13_ReadThrough ==
  [][ /\ \A component \in Components :
           /\ ( calls[component].pc = "idle" /\ calls'[component].pc = "leaves" )
                => status(cache, now, fetchKey("fetchEnvironmentalData"))
                     # "valid"
           /\ \A name \in SlotNames :
                LET key == fetchKey(slotFetcher(name))
                IN  /\ SlotMisses(component, name)
                         => status(cache, now, key) # "valid"
                    /\ SlotHits(component, name)
                         => /\ status(cache, now, key) = "valid"
                            /\ calls'[component][name].val = cache[key].data
                            /\ key \in DOMAIN cache' /\ cache'[key] = cache[key]
      /\ ( done' # done /\ done'.outcome = "hit" )
           => LET key == fetchKey("fetchEnvironmentalData")
              IN  /\ status(cache, now, key) = "valid"
                  /\ done'.ret = cache[key].data
                  /\ calls' = calls
                  /\ cache' = cache
      /\ \A k \in DOMAIN cache :
           now' < cache[k].expiresAt => k \in DOMAIN cache' ]_vars

\* fetchEnvironmentalData has returned the cached object, after the first
\* period of the timer, with no invocation awaiting
C13_Witness ==
  /\ done.outcome = "hit"
  /\ now > 0
  /\ status(cache, now, fetchKey("fetchEnvironmentalData")) = "valid"
  /\ done.ret = cache[fetchKey("fetchEnvironmentalData")].data
  /\ \A component \in Components : calls[component] = NotCalling

----------------------------------------------------------------------------
(* C14.  Callers call set only on a successful fetch: no entry in the      *)
(* cache holds data that stands in for a failed weather, satellite, news   *)
(* or critical-issues fetch, neither as the entry's data nor as a part of  *)
(* the 'environmental_data' object.                                        *)

C14_NoPlaceholderCached ==
  \A k \in DOMAIN cache :
    /\ cache[k].data \notin Placeholders
    /\ k = fetchKey("fetchEnvironmentalData") =>
         LET finalData == partsOf(cache[k].data)
         IN  /\ finalData.weatherData \notin Placeholders
             /\ finalData.satelliteData \notin Placeholders
             /\ finalData.newsData \notin Placeholders
             /\ finalData.criticalIssues \notin Placeholders

----------------------------------------------------------------------------
(* C15.  A failed fetch never populates the cache: the step on which       *)
(* fetchWeatherData, fetchEnvironmentalNews or identifyCriticalIssues ends *)
(* on its failure path makes no set and leaves the cache unchanged, so     *)
(* that a key absent then is absent afterwards and a get for it misses;    *)
(* and all that the invocation has done to the cache before is that its    *)
(* get took out the entry of its own key if that entry had expired.        *)
(* (fetchSatelliteData has no failure path that the network can cause.)    *)

\* As the claim has it: the invocation that fails has changed nothing in the
\* cache, its get included, and the next get for a key that was absent
\* misses.
C15_FailedFetchNoChange ==
  [][ \A component \in Components, name \in SlotNames :
        SlotFails(component, name) =>
          /\ cache' = cache
          /\ calls'[component][name].removed = 0
          /\ fetchKey(slotFetcher(name)) \notin DOMAIN cache =>
               cacheGet(cache', now', typeOf(slotFetcher(name)),
                        FetchLocation).ret = Null ]_vars

C15_FailedFetchNoSet ==
  [][ \A component \in Components, name \in SlotNames :
        LET key == fetchKey(slotFetcher(name))
        IN  /\ SlotFails(component, name) =>
                 /\ cache' = cache
                 /\ key \notin DOMAIN cache =>
                      cacheGet(cache', now', typeOf(slotFetcher(name)),
                               FetchLocation).ret = Null
            /\ SlotMisses(component, name) =>
                 /\ key \notin DOMAIN cache'
                 /\ \A k \in DOMAIN cache' :
                      k \in DOMAIN cache /\ cache'[k] = cache[k]
                 /\ \A k \in DOMAIN cache \ DOMAIN cache' :
                      status(cache, now, k) = "stale"
                 /\ calls'[component][name].removed =
                      IF key \in DOMAIN cache THEN 1 ELSE 0 ]_vars

\* a fetcher has ended on its failure path after its get took the expired
\* entry of its key out of the map, and the key is absent
C15_Witness ==
  \E component \in Components, name \in SlotNames :
    LET slot == calls[component][name]
    IN  /\ slot.st = "rejected" \/ (slot.st = "ok" /\ slot.val < 0)
        /\ slot.removed = 1
        /\ fetchKey(slotFetcher(name)) \notin DOMAIN cache

----------------------------------------------------------------------------
(* C16.  Periodic sweep: with cleanup() run by the 5-minute timer alone,   *)
(* and whether or not any get is made, every firing of the timer leaves no *)
(* expired entry in the map, and no entry is ever in the map more than     *)
(* 5 minutes after its expiresAt.                                          *)

----------------------------------------------------------------------------
(* C17.  Every stored entry has expiresAt = timestamp + ttl(kind) exactly, *)
(* and so expiresAt > timestamp, although set reads the clock once for     *)
(* timestamp and once more for expiresAt.  Stated for the entry a set has  *)
(* just written, whose kind the call names.                                *)

C17_ExpiresAtExact ==
  last.op = "set" =>
    /\ lastKey \in DOMAIN cache
    /\ cache[lastKey].expiresAt = cache[lastKey].timestamp + ttlOf(last.type)
    /\ cache[lastKey].expiresAt > cache[lastKey].timestamp

----------------------------------------------------------------------------
(* C18.  cleanup() is idempotent: a cleanup directly after a cleanup, at   *)
(* the same clock value, removes nothing and leaves the cache as the first *)
(* left it; and sweeping the swept map of any reachable state gives the    *)
(* swept map again.                                                        *)

C18_CleanupIdempotent ==
  [][ /\ cacheCleanup(cacheCleanup(cache, now), now) = cacheCleanup(cache, now)
      /\ ( /\ last.op = "cleanup"
           /\ last'.op = "cleanup"
           /\ now' = now )
         => ( cache' = cache /\ last'.removed = 0 ) ]_vars

\* a cleanup has found nothing to remove, two entries written earlier having
\* expired and left the map without a clear
C18_Witness ==
  /\ last.op = "cleanup"
  /\ last.removed = 0
  /\ cache = << >>
  /\ Cardinality({k \in DOMAIN written : ~written[k].cleared}) = 2

----------------------------------------------------------------------------
(* C19.  Atomicity under interleaving: with the invocations of the two     *)
(* components and the timer's cleanup interleaved between cache calls,     *)
(* every step leaves each entry of the map either as it was or written     *)
(* whole by the one set of that step (its data the data that set was       *)
(* given, its timestamp and expiresAt taken by that set); no step writes   *)
(* more than one entry; and a get that hits returns the data of a whole    *)
(* entry.                                                                  *)

\* Entry k of the map after the step is the entry a set of this step wrote
\* for fetcher f with the given data.
WrittenWhole(k, f, data) ==
  /\ k = fetchKey(f)
  /\ cache'[k] = [data |-> data, timestamp |-> now,
                  expiresAt |-> now' + ttlOf(typeOf(f))]

C19_WholeEntries ==
  [][ /\ \A k \in DOMAIN cache' :
           \/ k \in DOMAIN cache /\ cache'[k] = cache[k]
           \/ \E component \in Components, name \in SlotNames :
                /\ SlotStores(component, name)
                /\ WrittenWhole(k, slotFetcher(name),
                                calls'[component][name].val)
           \/ \E component \in Components :
                /\ calls[component].pc = "issues"
                /\ calls'[component].pc = "idle"
                /\ WrittenWhole(k, "fetchEnvironmentalData", done'.ret)
      /\ \A component \in Components :
           /\ \A name \in SlotNames :
                /\ SlotStores(component, name) =>
                     WrittenWhole(fetchKey(slotFetcher(name)),
                                  slotFetcher(name),
                                  calls'[component][name].val)
                /\ SlotHits(component, name) =>
                     calls'[component][name].val
                       = cache[fetchKey(slotFetcher(name))].data
           /\ ( calls[component].pc = "issues"
                  /\ calls'[component].pc = "idle" )
                => /\ done'.ret = EnvironmentalData(
                        calls[component].ci.val, calls[component].s.val,
                        calls[component].w.val, calls[component].n.val)
                   /\ WrittenWhole(fetchKey("fetchEnvironmentalData"),
                                   "fetchEnvironmentalData", done'.ret)
      /\ Cardinality({k \in DOMAIN cache' :
                        k \notin DOMAIN cache \/ cache'[k] # cache[k]}) <= 1
    ]_vars

\* both components are awaiting, one of them identifyCriticalIssues and the
\* other Promise.allSettled, and the cache holds an object built with
\* stand-in data next to entries the other invocation will overwrite
C19_Witness ==
  /\ \E a, b \in Components :
       /\ calls[a].pc = "issues"
       /\ calls[b].pc = "leaves"
       /\ \E name \in SlotNames : calls[b][name].st = "net"
                                    /\ fetchKey(slotFetcher(name)) \in DOMAIN cache
  /\ now > 0

----------------------------------------------------------------------------
(* C20.  Bounded staleness: whenever get(kind, location) returns data,     *)
(* that data is what the latest set on the same key was given, no clear    *)
(* has come since, and that set stamped the entry less than ttl(kind)      *)
(* before the get (time of the set: the clock value it took expiresAt      *)
(* from).                                                                  *)

C20_BoundedStaleness ==
  [][ ( last'.op = "get" /\ last'.ret # Null )
      => ( /\ Live(stepKey)
           /\ written[stepKey].data = last'.ret
           /\ written[stepKey].at <= now
           /\ now - written[stepKey].at < ttlOf(last'.type) ) ]_vars

\* a get has served a payload after the clock moved on from the set, with
\* an older set on the same key overwritten
C20_Witness ==
  /\ last.op = "get"
  /\ last.ret = Payload(2)
  /\ DOMAIN written = {lastKey}
  /\ now > written[lastKey].at

----------------------------------------------------------------------------
(* C21.  Keys identify normalised tuples: a get returns data only if the   *)
(* latest set on its key was made with the same kind and with a city and a *)
(* country that equal its own, each by itself, after lower-casing and      *)
(* collapsing of whitespace.                                               *)

C21_KeysIdentifyTuples ==
  [][ ( last'.op = "get" /\ last'.ret # Null )
        => /\ Live(stepKey)
           /\ written[stepKey].data = last'.ret
           /\ SameLocation(written[stepKey].location, last'.location) ]_vars

----------------------------------------------------------------------------
(* C22.  Memory bound: after every call the map holds no more entries than *)
(* there are distinct keys passed to set since construction or the last    *)
(* clear (each entry is under one of those keys); and get, cleanup and     *)
(* getStats add no entry.                                                  *)

\* The keys passed to set since construction or the last clear, after the
\* step.
KeysSetAfter == {k \in DOMAIN written' : ~written'[k].cleared}

C22_MemoryBound ==
  [][ /\ DOMAIN cache' \subseteq KeysSetAfter
      /\ size(cache') <= Cardinality(KeysSetAfter)
      /\ last'.op \in {"get", "cleanup", "getStats"}
           => DOMAIN cache' \subseteq DOMAIN cache ]_vars

\* sets on two keys have been made and a get or cleanup has taken one of the
\* entries out since: fewer entries than keys
C22_Witness ==
  /\ nsets = 2
  /\ Cardinality({k \in DOMAIN written : ~written[k].cleared}) = 2
  /\ size(cache) = 1
  /\ last.op \in {"get", "cleanup"}
  /\ last.removed = 1

----------------------------------------------------------------------------
(* C23.  get, cleanup and getStats agree on validity: in every reachable   *)
(* state, for every stored entry, get would return the entry's data        *)
(* exactly if cleanup would keep the entry, exactly if getStats counts it  *)
(* as valid, exactly if now < expiresAt; an entry with now = expiresAt is  *)
(* expired for all three.  So the validEntries of getStats is the number   *)
(* of entries cleanup would keep.                                          *)

C23_ValidityAgrees ==
  /\ \A type \in MainKinds, location \in MainLocations :
       LET key == generateKey(type, location)
       IN  key \in DOMAIN cache =>
             LET returned == cacheGet(cache, now, type, location).ret
                               = cache[key].data
                 kept     == key \in DOMAIN cacheCleanup(cache, now)
                 alone    == [k \in {key} |-> cache[key]]
                 counted  == getStats(alone, now).validEntries = 1
                 expired  == getStats(alone, now).expiredEntries = 1
             IN  /\ returned <=> kept
                 /\ kept <=> counted
                 /\ counted <=> now < cache[key].expiresAt
                 /\ expired <=> ~counted
                 /\ ~returned =>
                      cacheGet(cache, now, type, location).ret = Null
  /\ getStats(cache, now).validEntries = size(cacheCleanup(cache, now))
  /\ getStats(cache, now).expiredEntries
       = size(cache) - size(cacheCleanup(cache, now))

\* one entry is at the instant of its expiry and another is still valid
C23_Witness ==
  \E k1, k2 \in DOMAIN cache :
    /\ now = cache[k1].expiresAt
    /\ now < cache[k2].expiresAt

----------------------------------------------------------------------------
(* C24.  The sweep is transparent to readers: of two caches given the same *)
(* set, get and clear calls at the same clock values, one of them with     *)
(* cleanup() calls put in at arbitrary points and the other with none,     *)
(* every get returns the same on both.                                     *)

C24_SweepTransparent ==
  [][ last'.op = "get"
        => last'.ret
             = cacheGet(lazy, now, last'.type, last'.location).ret ]_vars

\* a get has returned data after cleanup() took out of the first cache an
\* entry the second still holds
C24_Witness ==
  /\ last.op = "get"
  /\ last.ret # Null
  /\ size(lazy) > size(cache)

----------------------------------------------------------------------------
(* C25.  get and set touch only their own key: a set or get step leaves    *)
(* every entry under another key in the map as it was and puts no entry    *)
(* under another key; a get removes at most one entry, that of its key,    *)
(* also when other entries have expired.                                   *)

C25_OwnKeyOnly ==
  [][ last'.op \in {"get", "set"}
        => /\ \A k \in DOMAIN cache \ {stepKey} :
                k \in DOMAIN cache' /\ cache'[k] = cache[k]
           /\ DOMAIN cache' \subseteq DOMAIN cache \cup {stepKey}
           /\ last'.op = "get"
                => /\ last'.removed <= 1
                   /\ DOMAIN cache' \subseteq DOMAIN cache
           /\ last'.op = "set" => stepKey \in DOMAIN cache' ]_vars

\* a get has missed while the entry of the other key, expired, stays
C25_Witness ==
  /\ last.op = "get"
  /\ last.ret = Null
  /\ \E k \in DOMAIN cache : k # lastKey /\ now >= cache[k].expiresAt

----------------------------------------------------------------------------
(* C26.  Bundle consistency: in every object fetchEnvironmentalData has    *)
(* returned, and in every cached 'environmental_data' entry, the           *)
(* criticalIssues are what identifyCriticalIssues makes of the             *)
(* weatherData, satelliteData and newsData of that same object (the        *)
(* analysis of the prompt built from them, or the default issues generated *)
(* from them).                                                             *)

\* The criticalIssues of the object d come from the other parts of d.
BundleConsistent(d) ==
  LET finalData == partsOf(d)
  IN  \/ finalData.criticalIssues = DefaultIssues
      \/ finalData.criticalIssues
           = Analysis(Prompt(finalData.weatherData, finalData.satelliteData,
                             finalData.newsData, TRUE))

C26_BundleConsistency ==
  /\ done.outcome \in {"hit", "stored"} => BundleConsistent(done.ret)
  /\ fetchKey("fetchEnvironmentalData") \in DOMAIN cache
       => BundleConsistent(cache[fetchKey("fetchEnvironmentalData")].data)

----------------------------------------------------------------------------
(* C27.  Overlapping fetches: when two invocations of one fetcher for one  *)
(* location overlap (both miss before either stores), each set replaces    *)
(* the entry with the response it is given, whatever the entry holds: the  *)
(* entry holds the response stored last, in the order the responses        *)
(* arrive, and it can be the response to the request issued first.         *)

\* As the claim has it: a set never replaces the response to a request by
\* the response to a request issued earlier.
C27_NoStaleOverwrite ==
  [][ \A component \in Components, name \in {"w", "s", "n"} :
        LET key == fetchKey(slotFetcher(name))
        IN  ( SlotStores(component, name) /\ key \in DOMAIN cache )
              => ~( calls[component].req < requestOf(cache[key].data) )
    ]_vars

C27_LastSetWins ==
  [][ \A component \in Components, name \in {"w", "s", "n"} :
        LET key == fetchKey(slotFetcher(name))
        IN  SlotStores(component, name)
              => /\ key \in DOMAIN cache'
                 /\ cache'[key].data
                      = Response(slotFetcher(name), calls[component].req)
                 /\ requestOf(cache'[key].data) = calls[component].req
                 /\ calls'[component][name].val = cache'[key].data ]_vars

\* the invocation that began second has stored its response, and the entry
\* holds the response to the request of the first
C27_Witness ==
  \E component \in Components, name \in {"w", "s", "n"} :
    LET f == slotFetcher(name)
    IN  /\ calls[component].req = RequestNo(0, TRUE, TRUE)
        /\ calls[component][name].st = "ok"
        /\ calls[component][name].val = Response(f, calls[component].req)
        /\ fetchKey(f) \in DOMAIN cache
        /\ cache[fetchKey(f)].data = Response(f, RequestNo(0, FALSE, TRUE))

----------------------------------------------------------------------------
(* C28.  fetchSatelliteData ends its search for imagery on every miss: it  *)
(* makes at most 7 x 2 = 14 probes; the first probe that answers ok or     *)
(* throws ends the search with that probe's URL; when all 14 answer        *)
(* not-ok the search ends with the default tile; so imageUrl is non-empty  *)
(* after the search; and from its call to its return the invocation calls  *)
(* set exactly once, for ('satellite', location), with the data it returns.*)

SearchStep ==
      /\ probe'.probes <= 14
      /\ probe'.pc = "probing"
           => /\ probe'.imageUrl = EmptyUrl
              /\ probe'.sets = 0
      /\ probe'.probes = probe.probes + 1
           => /\ probe.pc = "probing"
              /\ cache' = cache
              /\ probe'.answer \in {"ok", "throws"}
                   => /\ probe'.pc = "analysing"
                      /\ probe'.imageUrl = TestUrl(probe.date, probe.layer)
              /\ ( probe'.answer = "notok" /\ probe'.probes < 14 )
                   => /\ probe'.pc = "probing"
                      /\ TestUrl(probe'.date, probe'.layer)
                           = TestUrl(probe.date, probe.layer) + 1
              /\ ( probe'.answer = "notok" /\ probe'.probes = 14 )
                   => /\ probe'.pc = "analysing"
                      /\ probe'.imageUrl = FallbackUrl
      /\ probe'.pc = "analysing"
           => /\ probe'.imageUrl # EmptyUrl
              /\ probe'.sets = 0
      /\ ( probe.pc = "analysing" /\ probe'.pc = "idle" )
           => /\ probe'.sets = 1
              /\ fetchKey("fetchSatelliteData") \in DOMAIN cache'
              /\ cache'[fetchKey("fetchSatelliteData")].data = probe'.ret
              /\ imageUrlOf(probe'.ret) = probe.imageUrl
              /\ imageUrlOf(probe'.ret) # EmptyUrl
              /\ \A k \in DOMAIN cache' \ {fetchKey("fetchSatelliteData")} :
                   k \in DOMAIN cache /\ cache'[k] = cache[k]

C28_ProbeSearch ==
  /\ (probe.pc # "idle") ~> (probe.pc = "idle" /\ probe.sets = 1)
  /\ [][SearchStep]_vars

\* an invocation that began when the entry had expired has returned, after
\* all 14 probes answered not-ok, data with the default tile, set once
C28_Witness ==
  /\ now > 0
  /\ probe.pc = "idle"
  /\ probe.probes = 14
  /\ probe.answer = "notok"
  /\ probe.sets = 1
  /\ imageUrlOf(probe.ret) = FallbackUrl
  /\ cache[fetchKey("fetchSatelliteData")].data = probe.ret

----------------------------------------------------------------------------
(* C29.  getDebugInfo returns one record for each entry of the map and no  *)
(* other, and the record of an entry names what the entry was set with:    *)
(* the pieces of its key between the underscores are the kind, the city    *)
(* and the country of the set, each lower-cased and with its whitespace    *)
(* replaced; type is the first and location the other two with a space     *)
(* between them.                                                            *)

\* text as generateKey leaves it
normalized(text) == replaceWhitespace(toLowerCase(text))

\* the record names the kind and the location
Names(record, type, location) ==
  /\ split(record.key, "_") = <<normalized(type), normalized(location.city),
                                normalized(location.country)>>
  /\ record.type = normalized(type)
  /\ record.location = normalized(location.city) \o <<" ">>
                         \o normalized(location.country)

C29_DebugInfoInvertsKey ==
  last.op = "getDebugInfo"
    => /\ Cardinality(last.ret) = size(cache)
       /\ \A k \in DOMAIN cache :
            /\ Cardinality({r \in last.ret : r.key = k}) = 1
            /\ \A r \in last.ret, type \in DebugKinds :
                 ( r.key = k /\ generateKey(type, written[k].location) = k )
                   => Names(r, type, written[k].location)

====
